---- MODULE Spec2Model ----
(***************************************************************************)
(* The notebook examples/notebooks/Creating Models/2-a-pde-model.ipynb as  *)
(* a state machine: a kernel namespace that the nine code cells update     *)
(* when they are run top to bottom.  The pybamm calls the cells make       *)
(* (Mesh, Discretisation.process_model, ScipySolver.solve, the processed   *)
(* variable) are modelled by their shapes: sizes, keys, grid points and    *)
(* time points, never by floating-point values.                            *)
(*                                                                         *)
(* Real numbers are fixed-point integers: x is stored as x * Den.          *)
(***************************************************************************)
EXTENDS Integers, Sequences, FiniteSets, TLC

VARIABLES pc, at, ns, integ, log, error, figure

vars == <<pc, at, ns, integ, log, error, figure>>

\* ------------------------------------------------------------------ numbers

\* var_pts = {r: 20}
NumPts == 20
\* t = np.linspace(0, 1, 100)
NumT == 100
\* r = np.linspace(0, 1, 100)
NumR == 100

\* Fixed-point denominator: holds i/(NumT-1), i/(NumR-1), 1/2, k/NumPts and the
\* cell centres (2k+1)/(2 NumPts) exactly.
Den == 2 * (NumT - 1) * (NumR - 1) * 2 * NumPts

\* np.linspace(a, b, n) with a, b already in fixed point: n points, both ends
\* included.
Linspace(a, b, n) == [i \in 1..n |-> a + ((i - 1) * (b - a)) \div (n - 1)]

\* ------------------------------------------------------------ expression tree

Variable(name, domain) == [op |-> "Variable", name |-> name, domain |-> domain]

SpatialVariable(name, domain, coord_sys) ==
    [op |-> "SpatialVariable", name |-> name, domain |-> domain,
     coord_sys |-> coord_sys]

Scalar(v) == [op |-> "Scalar", value |-> v]

Negate(e) == [op |-> "Negate", child |-> e]

Gradient(e) == [op |-> "Gradient", child |-> e]

Divergence(e) == [op |-> "Divergence", child |-> e]

\* A python dict with the single item {k: v}.
Dict1(k, v) == [x \in {k} |-> v]

EmptyDict == <<>>

\* ------------------------------------------------------------ the code cells

\* The cells with the discretisation and the solve exchanged.
CodeCells_SolveBeforeDiscretise ==
    <<"imports", "variable", "rhs", "conditions", "outputs",
      "geometry", "mesh", "solve", "discretise">>

\* The code cells of the notebook in file order (execution_count 1..9).
CodeCells ==
    <<"imports", "variable", "rhs", "conditions", "outputs",
      "geometry", "mesh", "discretise", "solve">>

\* model = pybamm.BaseModel()
BaseModel ==
    [rhs |-> EmptyDict, algebraic |-> EmptyDict,
     initial_conditions |-> EmptyDict, boundary_conditions |-> EmptyDict,
     variables |-> EmptyDict, discretised |-> FALSE]

\* c = pybamm.Variable("Concentration", domain="negative particle")
ConcentrationVariable == Variable("Concentration", <<"negative particle">>)

\* The flux without its minus sign.
Flux_NoMinus(cv) == Gradient(cv)

\* N = -pybamm.grad(c)
Flux(cv) == Negate(Gradient(cv))

\* dcdt = -pybamm.div(N)
Dcdt(flux) == Negate(Divergence(flux))

\* The initial conditions left out.
InitialConditions_Forgotten(cv) == EmptyDict

\* model.initial_conditions = {c: pybamm.Scalar(1)}
InitialConditions(cv) == Dict1(cv, Scalar(1))

\* lbc = pybamm.Scalar(0)
Lbc == Scalar(0)

\* rbc = pybamm.Scalar(2)
Rbc == Scalar(2)

\* The type of the right boundary condition misspelt.
BoundaryConditions_Misspelt(cv, lbc, rbc) ==
    Dict1(cv, [left |-> <<lbc, "Dirichlet">>, right |-> <<rbc, "neumann">>])

\* The right boundary condition left out.
BoundaryConditions_LeftOnly(cv, lbc, rbc) ==
    Dict1(cv, [left |-> <<lbc, "Dirichlet">>])

\* model.boundary_conditions =
\*     {c: {"left": (lbc, "Dirichlet"), "right": (rbc, "Neumann")}}
BoundaryConditions(cv, lbc, rbc) ==
    Dict1(cv, [left |-> <<lbc, "Dirichlet">>, right |-> <<rbc, "Neumann">>])

\* model.variables = {"Concentration": c, "Flux": N}
OutputVariables(cv, flux) == [Concentration |-> cv, Flux |-> flux]

\* r = pybamm.SpatialVariable("r", domain=["negative particle"],
\*                            coord_sys="spherical polar")
RadialVariable == SpatialVariable("r", <<"negative particle">>, "spherical polar")

\* The limits of the domain exchanged.
Geometry_LimitsSwapped(rv) ==
    Dict1("negative particle",
          [primary |-> Dict1(rv, [min |-> Scalar(1), max |-> Scalar(0)])])

\* geometry = {"negative particle":
\*     {"primary": {r: {"min": pybamm.Scalar(0), "max": pybamm.Scalar(1)}}}}
Geometry(rv) ==
    Dict1("negative particle",
          [primary |-> Dict1(rv, [min |-> Scalar(0), max |-> Scalar(1)])])

\* pybamm.MeshGenerator(submesh_type, submesh_params=None)
MeshGenerator(submesh_type) ==
    [submesh_type |-> submesh_type, submesh_params |-> EmptyDict]

\* submesh_types = {"negative particle":
\*     pybamm.MeshGenerator(pybamm.Uniform1DSubMesh)}
SubmeshTypes == Dict1("negative particle", MeshGenerator("Uniform1DSubMesh"))

\* var_pts = {r: 20}
VarPts(rv) == Dict1(rv, NumPts)

\* The spatial method given for another domain.
SpatialMethods_OtherDomain ==
    Dict1("negative electrode", [method |-> "FiniteVolume"])

\* spatial_methods = {"negative particle": pybamm.FiniteVolume()}
SpatialMethods == Dict1("negative particle", [method |-> "FiniteVolume"])

\* The times without the end point, as np.linspace(0, 1, 100, endpoint=False).
TimePoints_NoEndpoint == [i \in 1..NumT |-> ((i - 1) * Den) \div NumT]

\* t = np.linspace(0, 1, 100)
TimePoints == Linspace(0 * Den, 1 * Den, NumT)

\* r = np.linspace(0, 1, 100)
RadiusPoints == Linspace(0 * Den, 1 * Den, NumR)

\* c(solution.t, r=1): the position of the surface
SurfaceRadius == <<1 * Den>>

\* The profile asked for at t = 5.
ProfileTime_Five == <<5 * Den>>

\* c(t=0.5, r=r): the time of the profile
ProfileTime == <<Den \div 2>>

\* ------------------------------------------------------------------ library
\* pybamm itself is not part of the notebook: the calls are modelled by what
\* the notebook's text and the specification say of them.

\* The keys of a python dict.
Keys(d) == DOMAIN d

\* pybamm.Uniform1DSubMesh: npts cells of equal width between the limits;
\* edges are the npts + 1 cell faces, nodes the npts cell centres.
Uniform1DSubMesh(lims, npts) ==
    LET edges == Linspace(lims.min.value * Den, lims.max.value * Den, npts + 1)
    IN  [edges |-> edges,
         nodes |-> [i \in 1..npts |-> (edges[i] + edges[i + 1]) \div 2],
         npts |-> npts,
         coord_sys |-> "spherical polar"]

\* The spatial variable of a domain's primary dimension.
PrimaryVariable(geometry, d) == CHOOSE rv \in Keys(geometry[d].primary) : TRUE

\* pybamm.Mesh can be built: every domain of the geometry has a submesh type
\* and every spatial variable a number of points.
MeshOk(geometry, submesh_types, var_pts) ==
    \A d \in Keys(geometry) :
        /\ d \in Keys(submesh_types)
        /\ Keys(geometry[d].primary) # {}
        /\ Keys(geometry[d].primary) \subseteq Keys(var_pts)

\* pybamm.Mesh(geometry, submesh_types, var_pts): one submesh per domain.
Mesh(geometry, submesh_types, var_pts) ==
    [d \in Keys(geometry) |->
        LET rv == PrimaryVariable(geometry, d)
        IN  Uniform1DSubMesh(geometry[d].primary[rv], var_pts[rv])
              @@ [generator |-> submesh_types[d]]]

\* pybamm.Discretisation(mesh, spatial_methods)
Discretisation(mesh, spatial_methods) ==
    [mesh |-> mesh, spatial_methods |-> spatial_methods]

\* Number of mesh nodes of the domains a variable lives on.
RECURSIVE DomainSize(_, _)
DomainSize(mesh, domain) ==
    IF domain = <<>> THEN 0
    ELSE mesh[Head(domain)].npts + DomainSize(mesh, Tail(domain))

\* Discretisation.set_variable_slices: consecutive half-open slices
\* [start, stop) of the state vector, one per variable.
RECURSIVE SetVariableSlices(_, _, _)
SetVariableSlices(mesh, variables, start) ==
    IF variables = {} THEN EmptyDict
    ELSE LET v == CHOOSE x \in variables : TRUE
             stop == start + DomainSize(mesh, v.domain)
         IN  Dict1(v, [start |-> start, stop |-> stop])
               @@ SetVariableSlices(mesh, variables \ {v}, stop)

\* Number of sides on which a boundary condition is given for a variable.
BcSides(bcs, v) ==
    IF v \in Keys(bcs)
    THEN Cardinality(Keys(bcs[v]) \cap {"left", "right"})
    ELSE 0

\* Discretisation.process_symbol: a variable becomes its slice of the state
\* vector, the gradient a matrix from the n nodes to the n - 1 inner edges
\* extended by one edge per boundary condition, the divergence a matrix from
\* m edges to m - 1 nodes.
RECURSIVE ProcessSymbol(_, _, _)
ProcessSymbol(slices, bcs, e) ==
    CASE e.op = "Variable" ->
           [op |-> "StateVector", slice |-> slices[e], domain |-> e.domain,
            size |-> slices[e].stop - slices[e].start]
      [] e.op = "Scalar" ->
           [op |-> "Scalar", value |-> e.value, domain |-> <<>>, size |-> 1]
      [] e.op = "Negate" ->
           LET ch == ProcessSymbol(slices, bcs, e.child)
           IN  [op |-> "Negate", child |-> ch, domain |-> ch.domain,
                size |-> ch.size]
      [] e.op = "Gradient" ->
           LET ch == ProcessSymbol(slices, bcs, e.child)
           IN  [op |-> "MatrixMultiplication", matrix |-> "gradient",
                child |-> ch, domain |-> ch.domain,
                size |-> ch.size - 1 + BcSides(bcs, e.child)]
      [] e.op = "Divergence" ->
           LET ch == ProcessSymbol(slices, bcs, e.child)
           IN  [op |-> "MatrixMultiplication", matrix |-> "divergence",
                child |-> ch, domain |-> ch.domain, size |-> ch.size - 1]

\* Discretisation.process_initial_conditions: the initial value broadcast
\* over the variable's slice.
ProcessInitialCondition(slices, v, ic) ==
    [op |-> "Vector", value |-> ic.value,
     size |-> slices[v].stop - slices[v].start]

\* process_model can run: every variable with an equation has an initial
\* condition, and its domains are meshed and have a spatial method.
ProcessOk(disc, model) ==
    \A v \in Keys(model.rhs) :
        /\ v \in Keys(model.initial_conditions)
        /\ \A i \in 1..Len(v.domain) :
              /\ v.domain[i] \in Keys(disc.mesh)
              /\ v.domain[i] \in Keys(disc.spatial_methods)

\* The summed size of the discretised symbols of a dict.
RECURSIVE TotalSize(_, _)
TotalSize(d, ks) ==
    IF ks = {} THEN 0
    ELSE LET k == CHOOSE x \in ks : TRUE
         IN  d[k].size + TotalSize(d, ks \ {k})

\* disc.process_model(model): the model, discretised in place.  The equations,
\* the initial conditions and the output variables are replaced by their
\* discretised forms under the same keys.
ProcessModel(disc, model) ==
    LET slices == SetVariableSlices(disc.mesh, Keys(model.rhs), 0)
        bcs == model.boundary_conditions
        rhs == [v \in Keys(model.rhs) |->
                   ProcessSymbol(slices, bcs, model.rhs[v])]
        ics == [v \in Keys(model.rhs) |->
                   ProcessInitialCondition(slices, v, model.initial_conditions[v])]
    IN  [discretised |-> TRUE,
         mesh |-> disc.mesh,
         y_slices |-> slices,
         rhs |-> rhs,
         initial_conditions |-> ics,
         concatenated_rhs |->
             [op |-> "Concatenation", size |-> TotalSize(rhs, Keys(rhs))],
         concatenated_initial_conditions |->
             [op |-> "Concatenation", size |-> TotalSize(ics, Keys(ics))],
         variables |->
             [n \in Keys(model.variables) |->
                 ProcessSymbol(slices, bcs, model.variables[n])]]
        @@ model

\* A state vector of n floating-point entries.
StateVector(n) == [i \in 1..n |-> "float"]

\* solution[name]: the processed variable, with the solved times and the
\* extent of the mesh of its domain.
ProcessedVariable(solution, name) ==
    LET base == solution.model.variables[name]
        sub == solution.model.mesh[base.domain[1]]
    IN  [op |-> "ProcessedVariable", name |-> name, base |-> base,
         t_min |-> solution.t[1], t_max |-> solution.t[Len(solution.t)],
         r_min |-> sub.edges[1], r_max |-> sub.edges[Len(sub.edges)]]

\* The processed variable called at times ts and positions rs: one value for
\* every (t, r) pair, interpolated when the pair lies in the solved range.
Evaluate(pv, ts, rs) ==
    [i \in 1..(Len(ts) * Len(rs)) |->
        LET t == ts[((i - 1) \div Len(rs)) + 1]
            r == rs[((i - 1) % Len(rs)) + 1]
        IN  [t |-> t, r |-> r,
             value |-> IF /\ pv.t_min <= t /\ t <= pv.t_max
                          /\ pv.r_min <= r /\ r <= pv.r_max
                       THEN "float" ELSE "nan"]]

\* ---------------------------------------------------------------- the kernel

\* The names bound in the kernel's namespace.
Bound == DOMAIN ns

\* name = value
Bind(space, name, value) == (name :> value) @@ space

\* The cell the kernel runs next.
Running(cell) ==
    /\ error = ""
    /\ pc \in 1..Len(CodeCells)
    /\ CodeCells[pc] = cell

\* A cell raised: the run stops where it is.
Raise(exception) ==
    /\ error' = exception
    /\ UNCHANGED <<pc, at, ns, integ, figure>>

\* A cell ran to its end.
Finish ==
    /\ pc' = pc + 1
    /\ at' = "start"
    /\ error' = error

Init ==
    /\ pc = 1
    /\ at = "start"
    /\ ns = EmptyDict
    /\ integ = [k |-> 0, t_eval |-> <<>>, t |-> <<>>, y |-> <<>>]
    /\ log = <<>>
    /\ error = ""
    /\ figure = <<>>

\* import pybamm; import numpy as np; import matplotlib.pyplot as plt
Cell1 ==
    /\ Running("imports")
    /\ at = "start"
    /\ ns' = Bind(Bind(Bind(ns, "pybamm", "module"), "np", "module"),
                  "plt", "module")
    /\ Finish
    /\ UNCHANGED <<integ, log, figure>>

\* model = pybamm.BaseModel(); c = pybamm.Variable(...)
Cell2 ==
    /\ Running("variable")
    /\ at = "start"
    /\ log' = Append(log, "Variable")
    /\ IF "pybamm" \in Bound
       THEN /\ ns' = Bind(Bind(ns, "model", BaseModel), "c", ConcentrationVariable)
            /\ Finish
            /\ UNCHANGED <<integ, figure>>
       ELSE Raise("NameError")

\* The equation registered as an algebraic constraint: model.algebraic = {c: dcdt}.
Cell3_AsAlgebraic ==
    /\ Running("rhs")
    /\ at = "start"
    /\ log' = Append(log, "rhs")
    /\ IF {"pybamm", "c", "model"} \subseteq Bound
       THEN LET flux == Flux(ns.c)
                dcdt == Dcdt(flux)
            IN  /\ ns' = Bind(Bind(Bind(ns, "N", flux), "dcdt", dcdt), "model",
                              [ns.model EXCEPT !.algebraic = Dict1(ns.c, dcdt)])
                /\ Finish
                /\ UNCHANGED <<integ, figure>>
       ELSE Raise("NameError")

\* N = -pybamm.grad(c); dcdt = -pybamm.div(N); model.rhs = {c: dcdt}
Cell3 ==
    /\ Running("rhs")
    /\ at = "start"
    /\ log' = Append(log, "rhs")
    /\ IF {"pybamm", "c", "model"} \subseteq Bound
       THEN LET flux == Flux(ns.c)
                dcdt == Dcdt(flux)
            IN  /\ ns' = Bind(Bind(Bind(ns, "N", flux), "dcdt", dcdt), "model",
                              [ns.model EXCEPT !.rhs = Dict1(ns.c, dcdt)])
                /\ Finish
                /\ UNCHANGED <<integ, figure>>
       ELSE Raise("NameError")

\* model.initial_conditions = ...; lbc = ...; rbc = ...;
\* model.boundary_conditions = ...
Cell4 ==
    /\ Running("conditions")
    /\ at = "start"
    /\ log' = log \o <<"initial_conditions", "boundary_conditions">>
    /\ IF {"pybamm", "c", "model"} \subseteq Bound
       THEN /\ ns' = Bind(Bind(Bind(ns, "lbc", Lbc), "rbc", Rbc), "model",
                          [ns.model EXCEPT
                             !.initial_conditions = InitialConditions(ns.c),
                             !.boundary_conditions =
                                 BoundaryConditions(ns.c, Lbc, Rbc)])
            /\ Finish
            /\ UNCHANGED <<integ, figure>>
       ELSE Raise("NameError")

\* model.variables = {"Concentration": c, "Flux": N}
Cell5 ==
    /\ Running("outputs")
    /\ at = "start"
    /\ log' = Append(log, "variables")
    /\ IF {"c", "N", "model"} \subseteq Bound
       THEN /\ ns' = Bind(ns, "model",
                          [ns.model EXCEPT
                             !.variables = OutputVariables(ns.c, ns.N)])
            /\ Finish
            /\ UNCHANGED <<integ, figure>>
       ELSE Raise("NameError")

\* r = pybamm.SpatialVariable(...); geometry = {...}
Cell6 ==
    /\ Running("geometry")
    /\ at = "start"
    /\ log' = Append(log, "geometry")
    /\ IF "pybamm" \in Bound
       THEN /\ ns' = Bind(Bind(ns, "r", RadialVariable), "geometry",
                          Geometry(RadialVariable))
            /\ Finish
            /\ UNCHANGED <<integ, figure>>
       ELSE Raise("NameError")

\* submesh_types = {...}; var_pts = {r: 20};
\* mesh = pybamm.Mesh(geometry, submesh_types, var_pts)
Cell7 ==
    /\ Running("mesh")
    /\ at = "start"
    /\ log' = Append(log, "Mesh")
    /\ IF {"pybamm", "r", "geometry"} \subseteq Bound
       THEN LET var_pts == VarPts(ns.r)
                assigned == Bind(Bind(ns, "submesh_types", SubmeshTypes),
                                 "var_pts", var_pts)
            IN  /\ UNCHANGED <<integ, figure>>
                /\ IF MeshOk(ns.geometry, SubmeshTypes, var_pts)
                   THEN /\ ns' = Bind(assigned, "mesh",
                                      Mesh(ns.geometry, SubmeshTypes, var_pts))
                        /\ Finish
                   ELSE /\ ns' = assigned
                        /\ error' = "KeyError"
                        /\ UNCHANGED <<pc, at>>
       ELSE Raise("NameError")

\* spatial_methods = {...}; disc = pybamm.Discretisation(mesh, spatial_methods);
\* disc.process_model(model)
Cell8 ==
    /\ Running("discretise")
    /\ at = "start"
    /\ log' = Append(log, "process_model")
    /\ IF {"pybamm", "mesh", "model"} \subseteq Bound
       THEN LET disc == Discretisation(ns.mesh, SpatialMethods)
                assigned == Bind(Bind(ns, "spatial_methods", SpatialMethods),
                                 "disc", disc)
            IN  /\ UNCHANGED <<integ, figure>>
                /\ IF ProcessOk(disc, ns.model)
                   THEN /\ ns' = Bind(assigned, "model",
                                      ProcessModel(disc, ns.model))
                        /\ Finish
                   ELSE /\ ns' = assigned
                        /\ error' = "ModelError"
                        /\ UNCHANGED <<pc, at>>
       ELSE Raise("NameError")

\* ScipySolver.solve can run: the model has been discretised.
SolveOk(model) == model.discretised

\* The length of the initial state vector the solver builds from the
\* discretised initial conditions.
InitialStateSize(model) == model.concatenated_initial_conditions.size

\* solver = pybamm.ScipySolver(); t = np.linspace(0, 1, 100);
\* solver.solve(model, t) is entered: the integration starts from the initial
\* state at the first requested time.
Cell9Solve ==
    /\ Running("solve")
    /\ at = "start"
    /\ log' = Append(log, "solve")
    /\ figure' = figure
    /\ pc' = pc
    /\ IF {"pybamm", "np", "model"} \subseteq Bound
       THEN /\ ns' = Bind(Bind(ns, "solver", [solver |-> "ScipySolver"]),
                          "t", TimePoints)
            /\ IF SolveOk(ns.model)
               THEN /\ integ' = [k |-> 1, t_eval |-> TimePoints,
                                 t |-> <<TimePoints[1]>>,
                                 y |-> <<StateVector(InitialStateSize(ns.model))>>]
                    /\ at' = "solving"
                    /\ error' = error
               ELSE /\ error' = "ModelError"
                    /\ UNCHANGED <<at, integ>>
       ELSE /\ error' = "NameError"
            /\ UNCHANGED <<at, ns, integ>>

\* The integrator advances to the next requested time and stores the state.
SolverStep ==
    /\ Running("solve")
    /\ at = "solving"
    /\ integ.k < Len(integ.t_eval)
    /\ integ' = [integ EXCEPT
                   !.k = @ + 1,
                   !.t = Append(@, integ.t_eval[integ.k + 1]),
                   !.y = Append(@, StateVector(Len(integ.y[1])))]
    /\ UNCHANGED <<pc, at, ns, log, error, figure>>

\* solution = solver.solve(model, t) returns.
SolverReturn ==
    /\ Running("solve")
    /\ at = "solving"
    /\ integ.k = Len(integ.t_eval)
    /\ ns' = Bind(ns, "solution",
                  [t |-> integ.t, y |-> integ.y, model |-> ns.model])
    /\ at' = "solved"
    /\ UNCHANGED <<pc, integ, log, error, figure>>

\* c = solution["Concentration"]
Cell9PostProcess ==
    /\ Running("solve")
    /\ at = "solved"
    /\ log' = Append(log, "post-process")
    /\ UNCHANGED <<pc, integ, figure>>
    /\ IF "Concentration" \in Keys(ns.solution.model.variables)
       THEN /\ ns' = Bind(ns, "c", ProcessedVariable(ns.solution, "Concentration"))
            /\ at' = "processed"
            /\ error' = error
       ELSE /\ error' = "KeyError"
            /\ UNCHANGED <<at, ns>>

\* ax1.plot(solution.t, c(solution.t, r=1)); r = np.linspace(0, 1, 100);
\* ax2.plot(r, c(t=0.5, r=r)); plt.show()
Cell9Plot ==
    /\ Running("solve")
    /\ at = "processed"
    /\ log' = Append(log, "plot")
    /\ integ' = integ
    /\ LET surface == Evaluate(ns.c, ns.solution.t, SurfaceRadius)
           profile == Evaluate(ns.c, ProfileTime, RadiusPoints)
       IN  IF "plt" \in Bound
           THEN /\ ns' = Bind(ns, "r", RadiusPoints)
                /\ figure' = <<[x |-> ns.solution.t, y |-> surface],
                               [x |-> RadiusPoints, y |-> profile]>>
                /\ Finish
           ELSE /\ error' = "NameError"
                /\ UNCHANGED <<pc, at, ns, figure>>

Next ==
    \/ Cell1
    \/ Cell2
    \/ Cell3
    \/ Cell4
    \/ Cell5
    \/ Cell6
    \/ Cell7
    \/ Cell8
    \/ Cell9Solve
    \/ SolverStep
    \/ SolverReturn
    \/ Cell9PostProcess
    \/ Cell9Plot

Spec == Init /\ [][Next]_vars

\* The kernel runs the next cell and every library call returns.
FairSpec == Spec /\ WF_vars(Next)

\* ------------------------------------------------------------------- claims

\* The run has reached the end of the last cell.
Done == error = "" /\ pc = Len(CodeCells) + 1

\* The conditions cell has assigned the model's conditions.
ConditionsSet ==
    /\ "model" \in Bound
    /\ Keys(ns.model.boundary_conditions) # {}

\* C1: the model imposes the conditions of the introduction: Neumann with
\* value 0 on the left, Neumann with value 2 on the right, and the initial
\* condition 1, for the variable c.
C1_ConditionsOfTheIntroduction ==
    ConditionsSet =>
        /\ Keys(ns.model.boundary_conditions) = {ConcentrationVariable}
        /\ ns.model.boundary_conditions[ConcentrationVariable].left
             = <<Scalar(0), "Neumann">>
        /\ ns.model.boundary_conditions[ConcentrationVariable].right
             = <<Scalar(2), "Neumann">>
        /\ ~ns.model.discretised =>
             /\ Keys(ns.model.initial_conditions) = {ConcentrationVariable}
             /\ ns.model.initial_conditions[ConcentrationVariable] = Scalar(1)

\* The sign an expression carries once every minus is moved to the front
\* (gradient and divergence are linear).
RECURSIVE SignOf(_)
SignOf(e) ==
    CASE e.op = "Negate" -> 0 - SignOf(e.child)
      [] e.op \in {"Gradient", "Divergence"} -> SignOf(e.child)
      [] OTHER -> 1

\* The expression with every minus removed.
RECURSIVE Unsigned(_)
Unsigned(e) ==
    CASE e.op = "Negate" -> Unsigned(e.child)
      [] e.op = "Gradient" -> Gradient(Unsigned(e.child))
      [] e.op = "Divergence" -> Divergence(Unsigned(e.child))
      [] OTHER -> e

\* The rhs cell has registered the equation and the model is still symbolic.
RhsRegistered ==
    /\ {"model", "N", "dcdt"} \subseteq Bound
    /\ ~ns.model.discretised

\* C2: model.rhs has exactly one entry, keyed by c; it is minus the
\* divergence of N, N is minus the gradient of c, and the two signs cancel:
\* the equation is dc/dt = div(grad c).
C2_RhsIsDivGrad ==
    RhsRegistered =>
        /\ Keys(ns.model.rhs) = {ConcentrationVariable}
        /\ ns.model.rhs[ConcentrationVariable] = Negate(Divergence(ns.N))
        /\ ns.N = Negate(Gradient(ConcentrationVariable))
        /\ SignOf(ns.model.rhs[ConcentrationVariable]) = 1
        /\ Unsigned(ns.model.rhs[ConcentrationVariable])
             = Divergence(Gradient(ConcentrationVariable))

C2_Witness ==
    /\ RhsRegistered
    /\ Running("discretise")
    /\ Keys(ns.model.rhs) # {}

\* The stages of the pipeline in their order.
StageOrder ==
    <<"Variable", "rhs", "initial_conditions", "boundary_conditions",
      "variables", "geometry", "Mesh", "process_model", "solve",
      "post-process", "plot">>

\* C3: the stages occur in the order model definition, geometry, mesh,
\* discretisation, solve, post-processing and plotting; solve is never
\* invoked before process_model has been applied to the model, and the mesh
\* is never built before the geometry is defined.
C3_StagesInOrder ==
    /\ Len(log) <= Len(StageOrder)
    /\ \A i \in 1..Len(log) : log[i] = StageOrder[i]
    /\ \A i \in 1..Len(log) :
          log[i] = "solve" => \E j \in 1..(i - 1) : log[j] = "process_model"
    /\ \A i \in 1..Len(log) :
          log[i] = "Mesh" => \E j \in 1..(i - 1) : log[j] = "geometry"
    /\ at = "solving" => ns.model.discretised
    /\ "mesh" \in Bound => "geometry" \in Bound

C3_Witness == Done /\ log = StageOrder

\* process_model is about to be called.
ProcessModelCalled == Running("discretise") /\ at = "start"

\* C4: when process_model is called, every variable with an equation has an
\* initial condition and a boundary condition on both sides.
C4_ConditionsForEveryEquation ==
    ProcessModelCalled =>
        /\ "model" \in Bound
        /\ \A v \in Keys(ns.model.rhs) :
              /\ v \in Keys(ns.model.initial_conditions)
              /\ v \in Keys(ns.model.boundary_conditions)
              /\ {"left", "right"} \subseteq Keys(ns.model.boundary_conditions[v])

C4_Witness ==
    /\ ProcessModelCalled
    /\ "model" \in Bound
    /\ ConcentrationVariable \in Keys(ns.model.rhs)

\* C5: every boundary-condition entry has the form {side: (value, type)} with
\* side "left" or "right", type "Dirichlet" or "Neumann", and as values the
\* constant scalars 0 and 2.
C5_BoundaryConditionForm ==
    ConditionsSet =>
        \A v \in Keys(ns.model.boundary_conditions) :
            LET bc == ns.model.boundary_conditions[v]
            IN  /\ Keys(bc) \subseteq {"left", "right"}
                /\ \A side \in Keys(bc) :
                      /\ Len(bc[side]) = 2
                      /\ bc[side][2] \in {"Dirichlet", "Neumann"}
                      /\ bc[side][1].op = "Scalar"
                /\ {bc[side][1] : side \in Keys(bc)} = {Scalar(0), Scalar(2)}

C5_Witness ==
    /\ ConditionsSet
    /\ Keys(ns.model.boundary_conditions[ConcentrationVariable])
         = {"left", "right"}
    /\ Done

\* The domains that carry a variable with an equation.
UsedDomains(model) ==
    UNION {{v.domain[i] : i \in 1..Len(v.domain)} : v \in Keys(model.rhs)}

\* The spatial variables of a geometry.
SpatialVariables(geometry) ==
    UNION {Keys(geometry[d].primary) : d \in Keys(geometry)}

\* C6: the domain of c is the domain of r and is the one key of geometry, of
\* submesh_types and of spatial_methods: every domain that carries a variable
\* has a geometry, a submesh type and a spatial method when the mesh and the
\* discretisation are built, and no dictionary has a key no variable uses.
C6_DomainUsedConsistently ==
    /\ "geometry" \in Bound =>
          /\ "model" \in Bound
          /\ UsedDomains(ns.model) = {"negative particle"}
          /\ Keys(ns.geometry) = UsedDomains(ns.model)
          /\ \A d \in Keys(ns.geometry) :
                \A rv \in Keys(ns.geometry[d].primary) : rv.domain = <<d>>
          /\ \A v \in Keys(ns.model.rhs) :
                \A rv \in SpatialVariables(ns.geometry) : rv.domain = v.domain
    /\ "submesh_types" \in Bound =>
          Keys(ns.submesh_types) = UsedDomains(ns.model)
    /\ "var_pts" \in Bound =>
          Keys(ns.var_pts) = SpatialVariables(ns.geometry)
    /\ "mesh" \in Bound => Keys(ns.mesh) = UsedDomains(ns.model)
    /\ "spatial_methods" \in Bound =>
          Keys(ns.spatial_methods) = UsedDomains(ns.model)
    /\ "disc" \in Bound =>
          /\ Keys(ns.disc.mesh) = UsedDomains(ns.model)
          /\ Keys(ns.disc.spatial_methods) = UsedDomains(ns.model)

C6_Witness ==
    /\ Done
    /\ {"geometry", "submesh_types", "mesh", "spatial_methods", "disc"}
         \subseteq Bound
    /\ "negative particle" \in Keys(ns.disc.mesh)

\* C7: the mesh of "negative particle" is a uniform grid on [0, 1]: 20 nodes
\* and 21 edges, strictly increasing, first edge 0, last edge 1, equal cell
\* widths, every node strictly between its two edges, and no submesh
\* parameters.
C7_UniformMesh ==
    "mesh" \in Bound =>
        /\ "negative particle" \in Keys(ns.mesh)
        /\ LET sub == ns.mesh["negative particle"]
               n == Len(sub.nodes)
           IN  /\ n = 20
               /\ Len(sub.edges) = 21
               /\ sub.edges[1] = 0
               /\ sub.edges[Len(sub.edges)] = 1 * Den
               /\ \A i \in 1..(Len(sub.edges) - 1) :
                     /\ sub.edges[i] < sub.edges[i + 1]
                     /\ sub.edges[i + 1] - sub.edges[i]
                          = sub.edges[2] - sub.edges[1]
               /\ \A i \in 1..n :
                     /\ sub.edges[i] < sub.nodes[i]
                     /\ sub.nodes[i] < sub.edges[i + 1]
               /\ \A i \in 1..(n - 1) : sub.nodes[i] < sub.nodes[i + 1]
               /\ sub.generator.submesh_type = "Uniform1DSubMesh"
               /\ Keys(sub.generator.submesh_params) = {}

C7_Witness ==
    /\ "mesh" \in Bound
    /\ Len(ns.mesh["negative particle"].edges) > 1
    /\ Running("discretise")

\* The model has been processed by the discretisation.
Discretised == "model" \in Bound /\ ns.model.discretised

\* C8: after process_model the state vector has one entry per mesh node (20),
\* the slice of "Concentration" covers it without gap or overlap, the
\* gradient and the divergence are matrix multiplications, and the
\* discretised rhs and initial condition are as long as the slice.
C8_StateVectorSlice ==
    Discretised =>
        LET m == ns.model
            cv == ConcentrationVariable
            size == InitialStateSize(m)
        IN  /\ Keys(m.y_slices) = {cv}
            /\ size = 20
            /\ size = Len(m.mesh[cv.domain[1]].nodes)
            /\ \A v \in Keys(m.y_slices) :
                  /\ 0 <= m.y_slices[v].start
                  /\ m.y_slices[v].start < m.y_slices[v].stop
                  /\ m.y_slices[v].stop <= size
            /\ \A i \in 0..(size - 1) :
                  Cardinality({v \in Keys(m.y_slices) :
                                  /\ m.y_slices[v].start <= i
                                  /\ i < m.y_slices[v].stop}) = 1
            /\ m.variables.Concentration.op = "StateVector"
            /\ m.variables.Concentration.slice = [start |-> 0, stop |-> size]
            /\ m.rhs[cv].op = "Negate"
            /\ m.rhs[cv].child.op = "MatrixMultiplication"
            /\ m.rhs[cv].child.matrix = "divergence"
            /\ m.rhs[cv].child.child.child.op = "MatrixMultiplication"
            /\ m.rhs[cv].child.child.child.matrix = "gradient"
            /\ m.rhs[cv].size = m.y_slices[cv].stop - m.y_slices[cv].start
            /\ m.initial_conditions[cv].size
                 = m.y_slices[cv].stop - m.y_slices[cv].start
            /\ m.concatenated_rhs.size = size
            /\ \A k \in 1..Len(integ.y) : Len(integ.y[k]) = size

C8_Witness ==
    /\ Discretised
    /\ Running("solve")
    /\ at = "solved"
    /\ ns.model.y_slices[ConcentrationVariable] = [start |-> 0, stop |-> 20]

\* solver.solve has returned.
Solved == "solution" \in Bound

\* C9: solution.t is the 100 requested times, equally spaced from 0 to 1 and
\* strictly increasing, and the solution holds one state vector per time.
C9_SolutionAtRequestedTimes ==
    Solved =>
        LET sol == ns.solution
        IN  /\ Len(sol.t) = 100
            /\ sol.t = ns.t
            /\ sol.t[1] = 0
            /\ sol.t[Len(sol.t)] = 1 * Den
            /\ \A i \in 1..Len(sol.t) :
                  sol.t[i] * (Len(sol.t) - 1) = (i - 1) * Den
            /\ \A i \in 1..(Len(sol.t) - 1) : sol.t[i] < sol.t[i + 1]
            /\ Len(sol.y) = Len(sol.t)

C9_Witness == Solved /\ Done /\ Len(ns.solution.t) > 1

\* A point lies in the solved interval and in the meshed domain.
InSolvedRange(p) ==
    /\ 0 <= p.t
    /\ p.t <= 1 * Den
    /\ 0 <= p.r
    /\ p.r <= 1 * Den
    /\ ns.solution.t[1] <= p.t
    /\ p.t <= ns.solution.t[Len(ns.solution.t)]
    /\ ns.solution.model.mesh["negative particle"].edges[1] <= p.r
    /\ p.r <= ns.solution.model.mesh["negative particle"].edges[
                 Len(ns.solution.model.mesh["negative particle"].edges)]

\* The plots have been drawn.
Plotted == Len(figure) = 2

\* C10: the notebook evaluates "Concentration" at every time of solution.t
\* with r = 1 and at t = 0.5 with the 100 values of r from 0 to 1: every
\* point lies in the solved interval [0, 1] and in the meshed domain [0, 1],
\* and there is one value per requested point.
C10_EvaluationsInRange ==
    Plotted =>
        LET surface == figure[1].y
            profile == figure[2].y
        IN  /\ Len(surface) = Len(ns.solution.t)
            /\ Len(surface) = Len(figure[1].x)
            /\ \A i \in 1..Len(surface) :
                  /\ surface[i].t = ns.solution.t[i]
                  /\ surface[i].r = 1 * Den
                  /\ InSolvedRange(surface[i])
                  /\ surface[i].value = "float"
            /\ Len(profile) = 100
            /\ Len(profile) = Len(figure[2].x)
            /\ \A i \in 1..Len(profile) :
                  /\ 2 * profile[i].t = 1 * Den
                  /\ profile[i].r = figure[2].x[i]
                  /\ profile[i].r * (Len(profile) - 1) = (i - 1) * Den
                  /\ InSolvedRange(profile[i])
                  /\ profile[i].value = "float"

C10_Witness == Plotted /\ Done /\ Len(figure[1].y) > 1 /\ Len(figure[2].y) > 1

\* C11: a top-to-bottom run is one fixed finite sequence of the 9 code cells:
\* no cell raises, the kernel never goes back to an earlier cell, and the run
\* reaches the end of the last cell (the plot) when every library call
\* returns.
C11_RunsTheNineCellsToTheEnd ==
    /\ [](/\ error = ""
          /\ Len(CodeCells) = 9
          /\ pc \in 1..(Len(CodeCells) + 1))
    /\ [][/\ pc' \in {pc, pc + 1}
          /\ pc' = pc + 1 => at' = "start"
          /\ pc' = pc => CodeCells[pc] = "solve"]_vars
    /\ <>(Done /\ Plotted)

C11_Witness ==
    /\ Done
    /\ pc = 10
    /\ Plotted
    /\ log = StageOrder

\* C12: the model has equations in model.rhs only and none in
\* model.algebraic; once discretised it is a system of 20 ordinary
\* differential equations, which pybamm.ScipySolver advances forward in time
\* from t = 0.
C12_PureOdeSystem ==
    /\ "model" \in Bound => Keys(ns.model.algebraic) = {}
    /\ "dcdt" \in Bound =>
          /\ Keys(ns.model.rhs) = {ConcentrationVariable}
          /\ Keys(ns.model.rhs) \cap Keys(ns.model.algebraic) = {}
    /\ Discretised =>
          /\ ns.model.concatenated_rhs.size = 20
          /\ ns.model.concatenated_rhs.size = InitialStateSize(ns.model)
    /\ at # "start" =>
          /\ Discretised
          /\ "solver" \in Bound
          /\ ns.solver.solver = "ScipySolver"
          /\ Len(integ.t) = integ.k
          /\ Len(integ.y) = integ.k
          /\ integ.t[1] = 0
          /\ \A i \in 1..(Len(integ.t) - 1) : integ.t[i] < integ.t[i + 1]
          /\ \A i \in 1..Len(integ.y) : Len(integ.y[i]) = 20

C12_Witness ==
    /\ Discretised
    /\ at = "solving"
    /\ integ.k > 1
    /\ Keys(ns.model.rhs) # {}

====
